---- MODULE Spec2Model ----
(***************************************************************************)
(* A model of src/main.rs, the diffuse sphere ray tracer.                  *)
(*                                                                         *)
(* Numbers.  An f32 is modelled as a binary fixed-point number: the        *)
(* integer n stands for n / Q.  Addition, subtraction and negation are     *)
(* exact; multiplication, division and square root round toward zero to    *)
(* the grid, which, like IEEE rounding, is monotone and symmetric under    *)
(* negation.  NaN and the infinities are not modelled: every division of   *)
(* the model has a non-zero divisor in every reachable state (TLC would    *)
(* stop on a division by zero otherwise).                                  *)
(*                                                                         *)
(* Specifications.                                                         *)
(*   SpecHit     Objects::hit scanning a list of spheres (one action per   *)
(*               iteration of the loop), for rays, bounds and lists drawn  *)
(*               from bounded sets.                                        *)
(*   SpecColor   Ray::color with random_in_unit_sphere inlined: one action *)
(*               per branch of a call and per turn of the rejection loop;  *)
(*               the generator is a cyclic tape of values of [0, 1).       *)
(*               FairSpecColor adds weak fairness of the running call.     *)
(*   Spec        main: the pixel and sample loops, with image size, sample *)
(*               count and depth scaled down from lines 194-197.           *)
(*   SpecToString  color_to_string applied to bounded channel sums.        *)
(***************************************************************************)
EXTENDS Integers, Sequences, FiniteSets, TLC

VARIABLES
    pc,              \* position of the running function
    ray,             \* the ray being traced (self of Ray::color): [origin, direction]
    objects,         \* Objects.objects (the world): a sequence of spheres
    hit,             \* the `hit` local: None or Some(record) of the last test
    t_min, t_max,    \* arguments of Objects::hit
    idx,             \* Objects::hit: index of the next member to test
    closest_so_far,  \* Objects::hit: local variable
    closest_hit,     \* Objects::hit: local variable, None or Some(record)
    closest_idx,     \* history: index of the member that produced closest_hit
    rng,             \* the generator: [tape, pos], the values it will produce
    depth,           \* Ray::color: the depth argument of the running call
    depth0,          \* history: the depth argument of the outermost call
    stack,           \* Ray::color: the suspended callers, each [ray, depth]
    sample,          \* random_in_unit_sphere: the local v
    result,          \* Ray::color: the value being returned
    path,            \* history: the rays of the calls of Ray::color, outermost first
    draws,           \* history: the vectors random_in_unit_sphere returned
    i, j,            \* main: the loop variables of the pixel loops
    s,               \* main: the number of samples taken for the pixel
    u, v,            \* main: the viewport coordinates of the sample
    pixel_color,     \* main: the accumulator of the pixel
    content,         \* main: the output, [header, pixels]
    order,           \* history: the pixel <<i, j>> behind each triple of content
    samples_per_pixel, \* color_to_string: its second argument
    out              \* color_to_string: the triple it formats

hitVars == <<t_min, t_max, idx, closest_so_far, closest_hit, closest_idx>>

colorVars == <<depth, depth0, stack, sample, result, path, draws>>

renderVars == <<i, j, s, u, v, pixel_color, content, order>>

stringVars == <<samples_per_pixel, out>>

vars == <<pc, ray, objects, hit, rng, hitVars, colorVars, renderVars, stringVars>>

----------------------------------------------------------------------------
(* Fixed-point arithmetic standing for f32.                                *)

FracBits == 6

\* One unit (1.0) in grid steps.
Q == 2 ^ FracBits

Abs(n) == IF n < 0 THEN -n ELSE n

\* Integer division rounding toward zero.
TruncDiv(n, d) ==
    IF (n >= 0) = (d > 0) THEN Abs(n) \div Abs(d) ELSE -(Abs(n) \div Abs(d))

\* f32 * f32
Mul(x, y) == TruncDiv(x * y, Q)

\* f32 / f32
Div(x, y) == TruncDiv(x * Q, y)

\* F applied to the value of e.  (TLC evaluates e once and hands F the
\* value; a LET would be evaluated again at every use inside ENABLED.)
Eval(e, F(_)) == CHOOSE r \in { F(x) : x \in {e} } : TRUE

RECURSIVE ISqrtSearch(_, _, _)
\* The largest s in lo..hi with s * s <= n, given lo * lo <= n.
ISqrtSearch(n, lo, hi) ==
    IF lo >= hi THEN lo
    ELSE Eval((lo + hi + 1) \div 2, LAMBDA mid :
             IF mid * mid <= n THEN ISqrtSearch(n, mid, hi)
             ELSE ISqrtSearch(n, lo, mid - 1))

\* The integer square root, rounded down.  The search stops at 46340, whose
\* square is the largest below 2^31.
ISqrt(n) == ISqrtSearch(n, 0, IF n < 46340 THEN n ELSE 46340)

\* f32::sqrt of a non-negative number
Sqrt(x) == ISqrt(x * Q)

\* The grid value of the decimal literal num/den.
Lit(num, den) == TruncDiv(num * Q, den)

----------------------------------------------------------------------------
(* nalgebra's Vector3<f32>, as a triple.                                   *)

Vec(x, y, z) == <<x, y, z>>

VAdd(a, b) == <<a[1] + b[1], a[2] + b[2], a[3] + b[3]>>

VSub(a, b) == <<a[1] - b[1], a[2] - b[2], a[3] - b[3]>>

VNeg(a) == <<-a[1], -a[2], -a[3]>>

\* scalar * vector
VScale(k, a) == <<Mul(k, a[1]), Mul(k, a[2]), Mul(k, a[3])>>

\* vector / scalar
VDiv(a, k) == <<Div(a[1], k), Div(a[2], k), Div(a[3], k)>>

Dot(a, b) == Mul(a[1], b[1]) + Mul(a[2], b[2]) + Mul(a[3], b[3])

NormSquared(a) == Dot(a, a)

Norm(a) == Sqrt(NormSquared(a))

Normalize(a) == Eval(Norm(a), LAMBDA n : VDiv(a, n))

----------------------------------------------------------------------------
(* Ray, HitRecord, Sphere, Objects.                                        *)

\* Option<HitRecord>: None is the empty sequence, Some(h) is <<h>>.
None == <<>>

Some(h) == <<h>>

\* Ray::at
At(r, t) == VAdd(r.origin, VScale(t, r.direction))

\* A seeded fault of HitRecord::from: the orientation test reversed.
HitRecordFromReversed(r, p, t, outward_normal) ==
    Eval(Dot(r.direction, outward_normal) > 0, LAMBDA front_face :
        [p |-> p,
         normal |-> IF front_face THEN outward_normal ELSE VNeg(outward_normal),
         t |-> t,
         front_face |-> front_face])

\* HitRecord::from
HitRecordFrom(r, p, t, outward_normal) ==
    Eval(Dot(r.direction, outward_normal) < 0, LAMBDA front_face :
        [p |-> p,
         normal |-> IF front_face THEN outward_normal ELSE VNeg(outward_normal),
         t |-> t,
         front_face |-> front_face])

\* The outward normal Sphere::hit hands to HitRecord::from.
OutwardNormal(sphere, p) == VDiv(VSub(p, sphere.center), sphere.radius)

\* The coefficients Sphere::hit computes.
Quadratic(sphere, r) ==
    Eval(VSub(r.origin, sphere.center), LAMBDA oc :
    Eval(NormSquared(r.direction), LAMBDA a :
    Eval(Dot(oc, r.direction), LAMBDA half_b :
    Eval(NormSquared(oc) - Mul(sphere.radius, sphere.radius), LAMBDA c :
        [a |-> a, half_b |-> half_b, c |-> c,
         discriminant |-> Mul(half_b, half_b) - Mul(a, c)]))))

\* The root Sphere::hit tries first.
FirstRoot(q) == Div(-q.half_b - Sqrt(q.discriminant), q.a)

\* The root Sphere::hit tries second: the source writes
\* -(half_b + discriminant.sqrt()) / a, which is the first root again.
SecondRoot(q) == Div(-(q.half_b + Sqrt(q.discriminant)), q.a)

\* The end of Sphere::hit: the record of the hit at the root kept.
HitAt(sphere, r, root) ==
    Eval(At(r, root), LAMBDA p :
    Eval(OutwardNormal(sphere, p), LAMBDA outward_normal :
        Some(HitRecordFrom(r, p, root, outward_normal))))

\* impl Hittable for Sphere: hit
SphereHit(sphere, r, tmin, tmax) ==
    Eval(Quadratic(sphere, r), LAMBDA q :
        IF q.discriminant < 0 THEN None
        ELSE Eval(FirstRoot(q), LAMBDA first :
                 IF first < tmin \/ tmax < first
                 THEN Eval(SecondRoot(q), LAMBDA root :
                          IF root < tmin \/ tmax < root THEN None
                          ELSE HitAt(sphere, r, root))
                 ELSE HitAt(sphere, r, first)))

\* A seeded fault of the loop body: the upper bound is not shrunk.
ScanStepNoShrink(st, object, r, tmin) ==
    Eval(SphereHit(object, r, tmin, st.closest_so_far), LAMBDA h :
        IF h # None
        THEN [closest_so_far |-> st.closest_so_far, closest_hit |-> h, hit |-> h]
        ELSE [st EXCEPT !.hit = h])

\* One iteration of the loop of Objects::hit.
ScanStep(st, object, r, tmin) ==
    Eval(SphereHit(object, r, tmin, st.closest_so_far), LAMBDA h :
        IF h # None
        THEN [closest_so_far |-> h[1].t, closest_hit |-> h, hit |-> h]
        ELSE [st EXCEPT !.hit = h])

\* The locals of Objects::hit before the loop.
ScanStart(tmax) == [closest_so_far |-> tmax, closest_hit |-> None, hit |-> None]

RECURSIVE Scan(_, _, _, _, _)
\* The locals of Objects::hit after the first k members.
Scan(objs, r, tmin, tmax, k) ==
    IF k = 0 THEN ScanStart(tmax)
    ELSE Eval(Scan(objs, r, tmin, tmax, k - 1), LAMBDA st :
             ScanStep(st, objs[k], r, tmin))

\* impl Hittable for Objects: hit
ObjectsHit(objs, r, tmin, tmax) == Scan(objs, r, tmin, tmax, Len(objs)).closest_hit

----------------------------------------------------------------------------
(* The configuration of main.  The source renders 1024 pixels a row with   *)
(* 100 samples a pixel and 50 bounces; the model keeps the same program    *)
(* at a size TLC can enumerate.                                            *)

IMAGE_WIDTH == 6

SAMPLES_PER_PIXEL == 2

MAX_DEPTH == 2

\* const ASPECT_RATIO: f32 = 16.0 / 9.0
ASPECT_RATIO == Div(16 * Q, 9 * Q)

\* (x as f32), for an integer x
AsF32(x) == x * Q

\* (x as i32), for a float x
AsI32(x) == TruncDiv(x, Q)

\* const IMAGE_HEIGHT: i32 = (IMAGE_WIDTH as f32 / ASPECT_RATIO) as i32
IMAGE_HEIGHT == AsI32(Div(AsF32(IMAGE_WIDTH), ASPECT_RATIO))

\* let world = Objects { objects: vec![...] }
World ==
    << [center |-> Vec(0, 0, -Q), radius |-> Lit(1, 2)],
       [center |-> Vec(0, -Lit(1005, 10), -Q), radius |-> 100 * Q] >>

----------------------------------------------------------------------------
(* The random generator.  rand::thread_rng() is a deterministic generator  *)
(* of an unknown seed: the model draws, at the start, the periodic         *)
(* sequence of values in [0,1) it will produce.                            *)

\* The period of the sequence.
TapeLen == 3

\* Values of rng.gen::<f32>(): the least, the greatest, and two between.
GenValues == {0, Q \div 8, Q \div 2, Q - 1}

Tapes == [1..TapeLen -> GenValues]

\* The k-th value rng.gen::<f32>() will return next (k = 0 is the next one).
Gen(g, k) == g.tape[((g.pos - 1 + k) % TapeLen) + 1]

\* The generator after k values were taken.
Advance(g, k) == [g EXCEPT !.pos = ((g.pos - 1 + k) % TapeLen) + 1]

----------------------------------------------------------------------------
(* Camera.                                                                 *)

\* Camera::new
CameraNew(aspect_ratio) ==
    LET viewport_height == 2 * Q
        viewport_width == Mul(aspect_ratio, viewport_height)
        focal_length == Q
        origin == Vec(0, 0, 0)
        horizontal == Vec(viewport_width, 0, 0)
        vertical == Vec(0, viewport_height, 0)
    IN  [origin |-> origin,
         horizontal |-> horizontal,
         vertical |-> vertical,
         lower_left_corner |->
             VSub(VSub(VSub(origin, VDiv(horizontal, 2 * Q)), VDiv(vertical, 2 * Q)),
                  Vec(0, 0, focal_length))]

\* let camera = Camera::new(ASPECT_RATIO)
Camera == CameraNew(ASPECT_RATIO)

\* Camera::get_ray
GetRay(cam, uu, vv) ==
    [origin |-> cam.origin,
     direction |->
         VSub(VAdd(VAdd(cam.lower_left_corner, VScale(uu, cam.horizontal)),
                   VScale(vv, cam.vertical)),
              cam.origin)]

----------------------------------------------------------------------------
(* Colours.  A colour is a Vector3<f32> too, kept with MAX_DEPTH more      *)
(* fraction bits than Q gives: Ray::color halves a colour once per         *)
(* bounce, which is exact in binary floating point and stays exact here.   *)

\* One unit (1.0) of a colour channel in grid steps.
CQ == Q * 2 ^ MAX_DEPTH

\* A vector of the Q grid as a colour.
AsColor(a) == <<a[1] * 2 ^ MAX_DEPTH, a[2] * 2 ^ MAX_DEPTH, a[3] * 2 ^ MAX_DEPTH>>

\* Vector3::new(0.0, 0.0, 0.0)
Black == <<0, 0, 0>>

\* A seeded fault: the recursive colour is returned without the factor 0.5.
HalfDropped(c) == c

\* 0.5 * colour
Half(c) == <<c[1] \div 2, c[2] \div 2, c[3] \div 2>>

\* The background of Ray::color: the gradient along the normalized direction.
Background(r) ==
    Eval(Normalize(r.direction), LAMBDA normalized_direction :
    Eval(Mul(Lit(1, 2), normalized_direction[2] + Q), LAMBDA t :
        AsColor(VAdd(VScale(Q - t, Vec(Q, Q, Q)),
                     VScale(t, Vec(Lit(5, 10), Lit(7, 10), Q))))))

\* A seeded fault of the bounce limit: depth 0 still gathers light.
DepthExhaustedLate(d) == d < 0

\* if depth <= 0
DepthExhausted(d) == d <= 0

\* A seeded fault of the recursion: the budget is passed on unchanged.
NextDepthSame(d) == d

\* The depth argument of the recursive call.
NextDepth(d) == d - 1

\* A seeded fault: the scattered ray points at the target itself.
ScatteredToTarget(h, vec) ==
    [origin |-> h.p, direction |-> VAdd(VAdd(h.p, h.normal), vec)]

\* The ray of the recursive call of Ray::color.
Scattered(h, vec) ==
    Eval(VAdd(VAdd(h.p, h.normal), vec), LAMBDA target :
        [origin |-> h.p, direction |-> VSub(target, h.p)])

\* world.hit(self, 0.0, 1000.0)
WorldHit(r) == ObjectsHit(objects, r, 0, 1000 * Q)

\* The vector random_in_unit_sphere builds from the next three values.
Candidate(g) ==
    VSub(VScale(2 * Q, Vec(Gen(g, 0), Gen(g, 1), Gen(g, 2))), Vec(Q, Q, Q))

\* if v.norm_squared() < 1.0
InUnitSphere(vec) == NormSquared(vec) < Q

----------------------------------------------------------------------------
(* color_to_string.                                                        *)

\* f32::clamp
Clamp(x, lo, hi) == IF x < lo THEN lo ELSE IF x > hi THEN hi ELSE x

\* The decimal literal num/den as a colour channel.
ColorLit(num, den) == Lit(num, den) * 2 ^ MAX_DEPTH

\* A seeded fault of color_to_string: the channel is clamped to [0, 1].
QuantizeToOne(x) == TruncDiv(256 * Clamp(x, 0, CQ), CQ)

\* (256.0 * x.clamp(0.0, 0.999)) as i32
Quantize(x) == TruncDiv(256 * Clamp(x, 0, ColorLit(999, 1000)), CQ)

\* color_to_string: the three integers it formats.
ColorToString(color, spp) ==
    Eval(Div(Q, AsF32(spp)), LAMBDA scale :
        <<Quantize(Mul(color[1], scale)),
          Quantize(Mul(color[2], scale)),
          Quantize(Mul(color[3], scale))>>)

----------------------------------------------------------------------------
(* The values of the variables a specification does not use.               *)

IdleRng == [tape |-> [k \in 1..TapeLen |-> 0], pos |-> 1]

IdleHit ==
    /\ t_min = 0
    /\ t_max = 0
    /\ idx = 1
    /\ closest_so_far = 0
    /\ closest_hit = None
    /\ closest_idx = 0

IdleColor ==
    /\ depth = 0
    /\ depth0 = 0
    /\ stack = <<>>
    /\ sample = Vec(0, 0, 0)
    /\ result = Black
    /\ path = <<>>
    /\ draws = <<>>

IdleRender ==
    /\ i = 0
    /\ j = 0
    /\ s = 0
    /\ u = 0
    /\ v = 0
    /\ pixel_color = Black
    /\ content = [header |-> <<>>, pixels |-> <<>>]
    /\ order = <<>>

IdleString ==
    /\ samples_per_pixel = SAMPLES_PER_PIXEL
    /\ out = <<0, 0, 0>>

----------------------------------------------------------------------------
(* SpecHit: Objects::hit over rays, bounds and sphere lists drawn from     *)
(* bounded sets.                                                           *)

\* The longest list of members.
MaxObjects == 3

\* Spheres in front of, beside, around and away from the rays below.
HitSpheres ==
    { [center |-> Vec(0, 0, -2 * Q), radius |-> Q],
      [center |-> Vec(Q, 0, -Q), radius |-> Q],
      [center |-> Vec(0, 0, -4 * Q), radius |-> Q],
      [center |-> Vec(0, 0, 0), radius |-> 2 * Q],
      [center |-> Vec(0, 3 * Q, -2 * Q), radius |-> Q] }

HitRays ==
    { [origin |-> o, direction |-> d] :
        o \in {Vec(0, 0, 0), Vec(0, 0, -2 * Q)},
        d \in {Vec(0, 0, -Q), Vec(0, 0, -2 * Q), Vec(Q, 0, -2 * Q)} }

HitBounds == { <<0, Q>>, <<0, 1000 * Q>>, <<Q, Q>>, <<Q, 1000 * Q>> }

SphereLists == UNION { [1..n -> HitSpheres] : n \in 0..MaxObjects }

InitHit ==
    /\ pc = "start"
    /\ ray \in HitRays
    /\ objects \in SphereLists
    /\ \E b \in HitBounds : t_min = b[1] /\ t_max = b[2]
    /\ idx = 1
    /\ closest_so_far = 0
    /\ closest_hit = None
    /\ hit = None
    /\ closest_idx = 0
    /\ rng = IdleRng
    /\ IdleColor
    /\ IdleRender
    /\ IdleString

\* Objects::hit is entered: its locals are initialised.
HitEnter ==
    /\ pc = "start"
    /\ pc' = "loop"
    /\ idx' = 1
    /\ closest_so_far' = ScanStart(t_max).closest_so_far
    /\ closest_hit' = ScanStart(t_max).closest_hit
    /\ hit' = ScanStart(t_max).hit
    /\ closest_idx' = 0
    /\ UNCHANGED <<ray, objects, t_min, t_max, rng, colorVars, renderVars, stringVars>>

\* One iteration of `for object in &self.objects`.
HitIterate ==
    /\ pc = "loop"
    /\ idx <= Len(objects)
    /\ \E st \in {ScanStep([closest_so_far |-> closest_so_far,
                            closest_hit |-> closest_hit, hit |-> hit],
                           objects[idx], ray, t_min)} :
           /\ closest_so_far' = st.closest_so_far
           /\ closest_hit' = st.closest_hit
           /\ hit' = st.hit
           /\ closest_idx' = IF st.hit # None THEN idx ELSE closest_idx
    /\ idx' = idx + 1
    /\ UNCHANGED <<pc, ray, objects, t_min, t_max, rng, colorVars, renderVars,
                   stringVars>>

\* The loop is over: closest_hit is returned.
HitReturn ==
    /\ pc = "loop"
    /\ idx > Len(objects)
    /\ pc' = "done"
    /\ UNCHANGED <<ray, objects, hit, rng, hitVars, colorVars, renderVars, stringVars>>

NextHit == HitEnter \/ HitIterate \/ HitReturn

SpecHit == InitHit /\ [][NextHit]_vars

----------------------------------------------------------------------------
(* Ray::color, one action per step of a call.  The recursion is kept as    *)
(* a stack of suspended callers; random_in_unit_sphere is its loop.        *)

\* if depth <= 0 { return Vector3::new(0.0, 0.0, 0.0); }
ColorBlack ==
    /\ pc = "call"
    /\ DepthExhausted(depth)
    /\ result' = Black
    /\ pc' = "return"
    /\ UNCHANGED <<ray, objects, hit, rng, hitVars, depth, depth0, stack, sample,
                   path, draws, renderVars, stringVars>>

\* if let Some(hit) = world.hit(self, 0.0, 1000.0): random_in_unit_sphere is
\* called next.
ColorHit ==
    /\ pc = "call"
    /\ ~DepthExhausted(depth)
    /\ \E h \in {WorldHit(ray)} :
           /\ h # None
           /\ hit' = h
    /\ pc' = "scatter"
    /\ UNCHANGED <<ray, objects, rng, hitVars, colorVars, renderVars, stringVars>>

\* No hit: the background gradient is returned.
ColorMiss ==
    /\ pc = "call"
    /\ ~DepthExhausted(depth)
    /\ WorldHit(ray) = None
    /\ result' = Background(ray)
    /\ pc' = "return"
    /\ UNCHANGED <<ray, objects, hit, rng, hitVars, depth, depth0, stack, sample,
                   path, draws, renderVars, stringVars>>

\* random_in_unit_sphere: one pass of the loop draws v.
SphereDraw ==
    /\ pc = "scatter"
    /\ sample' = Candidate(rng)
    /\ rng' = Advance(rng, 3)
    /\ pc' = "test"
    /\ UNCHANGED <<ray, objects, hit, hitVars, depth, depth0, stack, result, path,
                   draws, renderVars, stringVars>>

\* random_in_unit_sphere: v is outside the unit ball, the loop goes round.
SphereReject ==
    /\ pc = "test"
    /\ ~InUnitSphere(sample)
    /\ pc' = "scatter"
    /\ UNCHANGED <<ray, objects, hit, rng, hitVars, colorVars, renderVars, stringVars>>

\* random_in_unit_sphere returns v, and Ray::color calls itself on the
\* scattered ray.
SphereAccept ==
    /\ pc = "test"
    /\ InUnitSphere(sample)
    /\ stack' = Append(stack, [ray |-> ray, depth |-> depth])
    /\ \E scattered \in {Scattered(hit[1], sample)} :
           /\ ray' = scattered
           /\ path' = Append(path, scattered)
    /\ depth' = NextDepth(depth)
    /\ draws' = Append(draws, sample)
    /\ pc' = "call"
    /\ UNCHANGED <<objects, hit, rng, hitVars, depth0, sample, result, renderVars,
                   stringVars>>

\* A recursive call has returned: its caller returns 0.5 * the colour.
ColorUnwind ==
    /\ pc = "return"
    /\ stack # <<>>
    /\ result' = Half(result)
    /\ ray' = stack[Len(stack)].ray
    /\ depth' = stack[Len(stack)].depth
    /\ stack' = SubSeq(stack, 1, Len(stack) - 1)
    /\ UNCHANGED <<pc, objects, hit, rng, hitVars, depth0, sample, path, draws,
                   renderVars, stringVars>>

\* The outermost call returns to its caller.
ColorReturn ==
    /\ pc = "return"
    /\ stack = <<>>
    /\ pc' = "returned"
    /\ UNCHANGED <<ray, objects, hit, rng, hitVars, colorVars, renderVars, stringVars>>

----------------------------------------------------------------------------
(* SpecColor: one call of Ray::color, for rays of the camera, the world of *)
(* main or no object at all, any budget up to MAX_DEPTH and any generator. *)

ColorRays ==
    { GetRay(Camera, uu, vv) :
        uu \in {0, Q \div 2, Q}, vv \in {0, (3 * Q) \div 8, Q \div 2, Q} }

ColorWorlds == { World, <<>> }

InitColor ==
    /\ pc = "caller"
    /\ ray = [origin |-> Vec(0, 0, 0), direction |-> Vec(0, 0, -Q)]
    /\ objects = <<>>
    /\ hit = None
    /\ IdleHit
    /\ rng = IdleRng
    /\ IdleColor
    /\ IdleRender
    /\ IdleString

\* Ray::color is called: on a ray, a world and a budget, with a generator.
ColorCall ==
    /\ pc = "caller"
    /\ ray' \in ColorRays
    /\ objects' \in ColorWorlds
    /\ rng' \in [tape : Tapes, pos : {1}]
    /\ depth' \in -1..MAX_DEPTH
    /\ depth0' = depth'
    /\ stack' = <<>>
    /\ path' = <<ray'>>
    /\ draws' = <<>>
    /\ pc' = "call"
    /\ UNCHANGED <<hit, hitVars, sample, result, renderVars, stringVars>>

NextColor ==
    \/ ColorCall
    \/ ColorBlack
    \/ ColorHit
    \/ ColorMiss
    \/ SphereDraw
    \/ SphereReject
    \/ SphereAccept
    \/ ColorUnwind
    \/ ColorReturn

SpecColor == InitColor /\ [][NextColor]_vars

\* The steps of a call of Ray::color that is under way.
ColorRunning ==
    \/ ColorBlack
    \/ ColorHit
    \/ ColorMiss
    \/ SphereDraw
    \/ SphereReject
    \/ SphereAccept
    \/ ColorUnwind
    \/ ColorReturn

\* A call under way runs on as long as it has a step to take.
FairSpecColor == SpecColor /\ WF_vars(ColorRunning)

----------------------------------------------------------------------------
(* Spec: main.  The pixel loops, the sample loop with its calls of         *)
(* Camera::get_ray and Ray::color (the actions above), and the formatting  *)
(* of each pixel into content.                                             *)

\* format!("P3\n {} {}\n255\n", IMAGE_WIDTH, IMAGE_HEIGHT)
Header == <<"P3", IMAGE_WIDTH, IMAGE_HEIGHT, 255>>

\* A seeded fault of the sampler: the jitter is added to the next pixel.
ViewportCoordNextPixel(k, jitter, n) == Div(AsF32(k + 1) + jitter, AsF32(n - 1))

\* (k as f32 + rng.gen::<f32>()) / (n - 1) as f32
ViewportCoord(k, jitter, n) == Div(AsF32(k) + jitter, AsF32(n - 1))

\* A seeded fault of the loops: the columns are the outer loop.
NextPixelColumnFirst(ii, jj) ==
    IF jj > 0 THEN [i |-> ii, j |-> jj - 1, pc |-> "pixel"]
    ELSE IF ii + 1 < IMAGE_WIDTH
         THEN [i |-> ii + 1, j |-> IMAGE_HEIGHT - 1, pc |-> "pixel"]
         ELSE [i |-> ii, j |-> jj, pc |-> "print"]

\* The pixel after (i, j) in `for j in (0..IMAGE_HEIGHT).rev()`,
\* `for i in 0..IMAGE_WIDTH`, or the end of the loops.
NextPixel(ii, jj) ==
    IF ii + 1 < IMAGE_WIDTH THEN [i |-> ii + 1, j |-> jj, pc |-> "pixel"]
    ELSE IF jj > 0 THEN [i |-> 0, j |-> jj - 1, pc |-> "pixel"]
         ELSE [i |-> ii, j |-> jj, pc |-> "print"]

Init ==
    /\ pc = "pixel"
    /\ ray = [origin |-> Vec(0, 0, 0), direction |-> Vec(0, 0, -Q)]
    /\ objects = World
    /\ hit = None
    /\ IdleHit
    /\ rng \in [tape : Tapes, pos : {1}]
    /\ IdleColor
    /\ i = 0
    /\ j = IMAGE_HEIGHT - 1
    /\ s = 0
    /\ u = 0
    /\ v = 0
    /\ pixel_color = Black
    /\ content = [header |-> Header, pixels |-> <<>>]
    /\ order = <<>>
    /\ IdleString

\* let mut pixel_color = Vector3::new(0.0, 0.0, 0.0), and the sample loop starts.
PixelStart ==
    /\ pc = "pixel"
    /\ pixel_color' = Black
    /\ s' = 0
    /\ pc' = "samples"
    /\ UNCHANGED <<ray, objects, hit, rng, hitVars, colorVars, i, j, u, v, content,
                   order, stringVars>>

\* One pass of the sample loop up to the call of Ray::color.
SampleStart ==
    /\ pc = "samples"
    /\ s < SAMPLES_PER_PIXEL
    /\ u' = ViewportCoord(i, Gen(rng, 0), IMAGE_WIDTH)
    /\ v' = ViewportCoord(j, Gen(rng, 1), IMAGE_HEIGHT)
    /\ rng' = Advance(rng, 2)
    /\ \E r \in {GetRay(Camera, u', v')} :
           /\ ray' = r
           /\ path' = <<r>>
    /\ depth' = MAX_DEPTH
    /\ depth0' = MAX_DEPTH
    /\ stack' = <<>>
    /\ draws' = <<>>
    /\ pc' = "call"
    /\ UNCHANGED <<objects, hit, hitVars, sample, result, i, j, s, pixel_color,
                   content, order, stringVars>>

\* pixel_color += the colour Ray::color returned.
Accumulate ==
    /\ pc = "returned"
    /\ pixel_color' = VAdd(pixel_color, result)
    /\ s' = s + 1
    /\ pc' = "samples"
    /\ UNCHANGED <<ray, objects, hit, rng, hitVars, colorVars, i, j, u, v, content,
                   order, stringVars>>

\* content.push_str(&color_to_string(&pixel_color, SAMPLES_PER_PIXEL)), and
\* the loops move on.
Emit ==
    /\ pc = "samples"
    /\ s >= SAMPLES_PER_PIXEL
    /\ content' = [content EXCEPT
                      !.pixels = Append(@, ColorToString(pixel_color, SAMPLES_PER_PIXEL))]
    /\ order' = Append(order, <<i, j>>)
    /\ i' = NextPixel(i, j).i
    /\ j' = NextPixel(i, j).j
    /\ pc' = NextPixel(i, j).pc
    /\ UNCHANGED <<ray, objects, hit, rng, hitVars, colorVars, s, u, v, pixel_color,
                   stringVars>>

\* print!("{}", content)
PrintContent ==
    /\ pc = "print"
    /\ pc' = "done"
    /\ UNCHANGED <<ray, objects, hit, rng, hitVars, colorVars, renderVars, stringVars>>

Next ==
    \/ PixelStart
    \/ SampleStart
    \/ ColorBlack
    \/ ColorHit
    \/ ColorMiss
    \/ SphereDraw
    \/ SphereReject
    \/ SphereAccept
    \/ ColorUnwind
    \/ ColorReturn
    \/ Accumulate
    \/ Emit
    \/ PrintContent

Spec == Init /\ [][Next]_vars

----------------------------------------------------------------------------
(* SpecToString: color_to_string on accumulated colours and sample counts  *)
(* drawn from bounded sets, negative and over-bright channels included.    *)

\* Channel sums: below zero, zero, inside the range, at and above
\* SAMPLES_PER_PIXEL times 1.0.
ChannelSums ==
    { -CQ, -1, 0, 1, CQ \div 2, CQ - 1, CQ, SAMPLES_PER_PIXEL * CQ,
      SAMPLES_PER_PIXEL * CQ + 1, 3 * SAMPLES_PER_PIXEL * CQ }

InitToString ==
    /\ pc = "format"
    /\ ray = [origin |-> Vec(0, 0, 0), direction |-> Vec(0, 0, -Q)]
    /\ objects = <<>>
    /\ hit = None
    /\ IdleHit
    /\ rng = IdleRng
    /\ IdleColor
    /\ i = 0
    /\ j = 0
    /\ s = 0
    /\ u = 0
    /\ v = 0
    /\ pixel_color \in ChannelSums \X ChannelSums \X ChannelSums
    /\ content = [header |-> <<>>, pixels |-> <<>>]
    /\ order = <<>>
    /\ samples_per_pixel \in 1..SAMPLES_PER_PIXEL
    /\ out = <<0, 0, 0>>

\* color_to_string(&pixel_color, samples_per_pixel)
Format ==
    /\ pc = "format"
    /\ out' = ColorToString(pixel_color, samples_per_pixel)
    /\ pc' = "formatted"
    /\ UNCHANGED <<ray, objects, hit, rng, hitVars, colorVars, renderVars,
                   samples_per_pixel>>

NextToString == Format

SpecToString == InitToString /\ [][NextToString]_vars

----------------------------------------------------------------------------
(* Claims about Sphere::hit, HitRecord::from and Objects::hit (SpecHit).   *)

\* The members' own hits within [t_min, t_max].
MemberHit(k) == SphereHit(objects[k], ray, t_min, t_max)

HittingMembers == { k \in 1..Len(objects) : MemberHit(k) # None }

MemberTs == { MemberHit(k)[1].t : k \in HittingMembers }

MinOf(S) == CHOOSE m \in S : \A x \in S : m <= x

ListPermutations(n) == { f \in [1..n -> 1..n] : \A a, b \in 1..n : f[a] = f[b] => a = b }

Permuted(f) == [k \in 1..Len(objects) |-> objects[f[k]]]

\* C1: when Objects::hit returns, the result is None if no member hits within
\* [t_min, t_max]; otherwise its t is the minimum of the members' hit
\* parameters, and every permutation of the list gives the same t.
C1_NearestHit ==
    pc = "done" =>
        /\ (MemberTs = {}) = (closest_hit = None)
        /\ closest_hit # None => closest_hit[1].t = MinOf(MemberTs)
        /\ \A f \in ListPermutations(Len(objects)) :
               LET other == ObjectsHit(Permuted(f), ray, t_min, t_max)
               IN  /\ (other = None) = (closest_hit = None)
                   /\ other # None => other[1].t = closest_hit[1].t

\* C1 witness: three members in range at two different distances, the nearest
\* not the last of the list, and the nearest is what was returned.
C1_Witness ==
    /\ pc = "done"
    /\ Cardinality(HittingMembers) >= 2
    /\ Cardinality(MemberTs) >= 2
    /\ MemberHit(Len(objects)) # None
    /\ MemberHit(Len(objects))[1].t > closest_hit[1].t

\* The upper bound the member tested last was given.
TestedMax == Scan(objects, ray, t_min, t_max, idx - 2).closest_so_far

\* The root the claim calls the larger one.
LargerRoot(q) == Div(-q.half_b + Sqrt(q.discriminant), q.a)

\* Sphere::hit as C2 states it.
SphereHitClaimed(sphere, r, tmin, tmax) ==
    LET q == Quadratic(sphere, r)
        InRange(t) == tmin <= t /\ t <= tmax
        Record(t) == Some(HitRecordFrom(r, At(r, t), t, OutwardNormal(sphere, At(r, t))))
    IN  IF q.discriminant < 0 THEN None
        ELSE IF InRange(FirstRoot(q)) THEN Record(FirstRoot(q))
        ELSE IF InRange(LargerRoot(q)) THEN Record(LargerRoot(q))
        ELSE None

\* C2: Sphere::hit returns None on a negative discriminant, else the smaller
\* root if it lies in [t_min, t_max], else the larger root if that one does,
\* else None.
C2_SmallestRootInRange ==
    (pc = "loop" /\ idx > 1) =>
        hit = SphereHitClaimed(objects[idx - 1], ray, t_min, TestedMax)

\* C3: every hit record has dot(ray.direction, normal) <= 0; front_face is
\* true exactly when dot(ray.direction, outward_normal) < 0, and the normal is
\* the outward normal then and its negation otherwise.
C3_NormalAgainstRay ==
    LET Oriented(h, k) ==
            LET n == OutwardNormal(objects[k], h.p)
            IN  /\ Dot(ray.direction, h.normal) <= 0
                /\ h.front_face = (Dot(ray.direction, n) < 0)
                /\ h.normal = IF h.front_face THEN n ELSE VNeg(n)
    IN  /\ (pc = "loop" /\ hit # None) => Oriented(hit[1], idx - 1)
        /\ closest_hit # None => Oriented(closest_hit[1], closest_idx)

\* C3 witness: a returned hit on a front face, after a member was hit where
\* the ray only grazes it (dot = 0, so the normal was negated).
C3_Witness ==
    /\ pc = "done"
    /\ closest_hit # None
    /\ closest_hit[1].front_face
    /\ \E k \in HittingMembers : ~MemberHit(k)[1].front_face

\* C8 as stated: a later member replaces an earlier hit only if its own hit
\* parameter is strictly smaller.
C8_StrictlyCloser ==
    [][(closest_hit # None /\ closest_idx' # closest_idx)
          => closest_hit'[1].t < closest_hit[1].t]_vars

\* C8 amended: a later member replaces an earlier hit exactly when its own hit
\* parameter is at most the earlier t; a later member whose hit parameter
\* equals t does replace the earlier hit.
C8_CloserOrEqual ==
    [][(pc = "loop" /\ pc' = "loop" /\ closest_hit # None)
          => /\ closest_idx' # closest_idx => closest_hit'[1].t <= closest_hit[1].t
             /\ (MemberHit(idx) # None /\ MemberHit(idx)[1].t <= closest_hit[1].t)
                    => (closest_idx' = idx /\ closest_hit' = MemberHit(idx))]_vars

\* C8 witness: the returned hit is that of a member later in the list than
\* another member whose hit parameter is the same.
C8_Witness ==
    /\ pc = "done"
    /\ closest_hit # None
    /\ \E k \in HittingMembers :
          /\ k < closest_idx
          /\ MemberHit(k)[1].t = closest_hit[1].t
          /\ MemberHit(k) # closest_hit

----------------------------------------------------------------------------
(* Claims about Ray::color (SpecColor, FairSpecColor).                     *)

\* The call that is returning has not yet handed its colour to a caller.
ReturningInnermost == pc = "return" /\ Len(path) = Len(stack) + 1

\* C4: a call of Ray::color with depth <= 0 returns exactly (0,0,0), whether
\* or not its ray hits an object of the scene.
C4_BlackWhenExhausted ==
    /\ (ReturningInnermost /\ depth <= 0) => result = Black
    /\ (pc = "returned" /\ depth0 <= 0) => result = Black

\* C4 witness: a call with depth 0 whose ray hits the scene has returned.
C4_Witness ==
    /\ pc = "returned"
    /\ depth0 = 0
    /\ WorldHit(ray) # None
    /\ result = Black

\* The budget of the outermost call, as a count of bounces.
Budget == IF depth0 > 0 THEN depth0 ELSE 0

\* C5 as stated: every call of Ray::color terminates, whatever the generator
\* produces.
C5_Terminates == (pc = "call") ~> (pc = "returned")

\* C5 amended: every recursive call passes depth - 1, so at most max_depth
\* calls are nested below the outermost one; the call terminates unless a
\* call of random_in_unit_sphere draws outside the unit ball for ever.
C5_DepthBoundsNesting ==
    /\ [](/\ depth = depth0 - Len(stack)
          /\ Len(stack) <= Budget
          /\ Len(path) - 1 <= Budget)
    /\ (<>[](pc \in {"scatter", "test"}) \/ ((pc = "call") ~> (pc = "returned")))

\* C5 witness: the deepest call the budget allows is returning.
C5_Witness ==
    /\ ReturningInnermost
    /\ depth0 = MAX_DEPTH
    /\ Len(stack) = MAX_DEPTH

\* The hit of the m-th ray of the path.
PathHit(m) == WorldHit(path[m])

\* C9: with depth d >= 1, a path of k < d hits followed by a miss returns
\* (1/2)^k times the background colour of the k-th scattered ray, and a path
\* of d hits returns (0,0,0); each scattered ray starts at the hit point with
\* direction hit.normal + random_in_unit_sphere() and gets the budget less 1.
C9_HalvedPerBounce ==
    /\ depth = depth0 - Len(stack)
    /\ (pc = "returned" /\ depth0 >= 1) =>
           LET k == Len(path) - 1
           IN  /\ \A m \in 1..k :
                      /\ PathHit(m) # None
                      /\ InUnitSphere(draws[m])
                      /\ path[m + 1] =
                             [origin |-> PathHit(m)[1].p,
                              direction |-> VAdd(PathHit(m)[1].normal, draws[m])]
               /\ k <= depth0
               /\ k < depth0 =>
                      /\ PathHit(k + 1) = None
                      /\ \A c \in 1..3 :
                             result[c] * 2 ^ k = Background(path[k + 1])[c]
               /\ k = depth0 => result = Black

\* C9 witness: one bounce and then a miss, with budget to spare.
C9_Witness ==
    /\ pc = "returned"
    /\ Len(path) = 2
    /\ depth0 = MAX_DEPTH
    /\ result # Black

----------------------------------------------------------------------------
(* Claims about color_to_string (SpecToString) and main (Spec).            *)

\* C6: for every accumulated colour, negative and over-bright channels
\* included, and every samples_per_pixel >= 1, color_to_string emits three
\* integers in [0, 255].
C6_ChannelsInByteRange ==
    pc = "formatted" => \A c \in 1..3 : out[c] \in 0..255

\* C6 witness: a negative channel came out as 0 and a channel whose average
\* exceeds 1 came out as the clamped maximum.
C6_Witness ==
    /\ pc = "formatted"
    /\ pixel_color[1] < 0
    /\ out[1] = 0
    /\ pixel_color[2] > samples_per_pixel * CQ
    /\ out[2] = Quantize(CQ)
    /\ out[2] >= 250

\* The place pixel (i, j) has in the output, counted from 0.
PlaceOf(ii, jj) == (IMAGE_HEIGHT - 1 - jj) * IMAGE_WIDTH + ii

\* C7: the render loop emits one triple per pixel, none twice, pixel (i, j)
\* being triple number (image_height - 1 - j) * image_width + i; at the end
\* there are image_width * image_height triples.
C7_RowMajorTopDown ==
    /\ Len(content.pixels) = Len(order)
    /\ \A k \in 1..Len(order) :
           /\ order[k][1] \in 0..(IMAGE_WIDTH - 1)
           /\ order[k][2] \in 0..(IMAGE_HEIGHT - 1)
           /\ k - 1 = PlaceOf(order[k][1], order[k][2])
    /\ pc \in {"print", "done"} => Len(content.pixels) = IMAGE_WIDTH * IMAGE_HEIGHT

\* C7 witness: the whole image was emitted, of more than one row and column.
C7_Witness ==
    /\ pc = "done"
    /\ IMAGE_WIDTH > 1
    /\ IMAGE_HEIGHT > 1
    /\ Len(content.pixels) = IMAGE_WIDTH * IMAGE_HEIGHT

\* A sample of pixel (i, j) is being traced with the coordinates (u, v).
Sampling == pc \in {"call", "scatter", "test", "return", "returned"}

\* C10 as stated: every (u, v) handed to Camera::get_ray lies in [0,1] x [0,1].
C10_UnitSquare ==
    Sampling => (0 <= u /\ u <= Q /\ 0 <= v /\ v <= Q)

\* C10 amended: u lies in [0, image_width / (image_width - 1)) and v in
\* [0, image_height / (image_height - 1)); u <= 1 holds for every column but
\* the last and v <= 1 for every row but the top one, where a jitter can
\* bring the coordinate above 1.
C10_UpToOnePixelBeyond ==
    Sampling =>
        /\ 0 <= u
        /\ u * (IMAGE_WIDTH - 1) < IMAGE_WIDTH * Q
        /\ i < IMAGE_WIDTH - 1 => u <= Q
        /\ 0 <= v
        /\ v * (IMAGE_HEIGHT - 1) < IMAGE_HEIGHT * Q
        /\ j < IMAGE_HEIGHT - 1 => v <= Q

\* C10 witness: a sample of the last column of the top row has both
\* coordinates above 1.
C10_Witness ==
    /\ Sampling
    /\ i = IMAGE_WIDTH - 1
    /\ j = IMAGE_HEIGHT - 1
    /\ u > Q
    /\ v > Q

====
